---- MODULE Spec2Model ----
(***************************************************************************)
(* Order book tracking of hummingbot's FTX connector.                      *)
(*                                                                         *)
(* FtxOrderBookTracker keeps one order book, one inbound queue and one     *)
(* asyncio task (_track_single_book) per tracked trading pair;             *)
(* _refresh_tracking_tasks aligns that tracked set with the pairs the data *)
(* source reports.  The model follows the asyncio schedule: a coroutine    *)
(* runs from one suspending await to the next with no other coroutine in   *)
(* between (variable running).  A pair has at most one unfinished task at  *)
(* a time when one caller runs the passes, so the objects of a pair (its   *)
(* task, order book, inbound queue, past-diffs window) are indexed by the  *)
(* pair, and each dictionary of the tracker is the set of its keys.        *)
(***************************************************************************)
EXTENDS Integers, Sequences, FiniteSets, TLC

(***************************************************************************)
(* Bounds of the model.                                                    *)
(***************************************************************************)
\* messages the feed delivers in one behaviour
MaxMsgs == 3
\* deque(maxlen=1000) of _saved_message_queues, scaled down
SavedMaxLen == 2
\* OrderBookTracker.PAST_DIFF_WINDOW_SIZE, scaled down
PAST_DIFF_WINDOW_SIZE == 1

Pairs == {"BTC-USD", "ETH-USD"}
Tokens == {99, 100, 101}
Prices == {100, 101}

DIFF == "DIFF"
SNAPSHOT == "SNAPSHOT"

(***************************************************************************)
(* Order book rows are <<price, size>>.  The row sets a message can carry: *)
(* an upsert on both sides, a deletion of the bid level, and the rows of a *)
(* snapshot (one bid, no ask).                                             *)
(***************************************************************************)
RowsUpsert == [bids |-> << <<100, 1>> >>, asks |-> << <<101, 1>> >>]
RowsDelete == [bids |-> << <<100, 0>> >>, asks |-> << >>]
RowsSnapshot == [bids |-> << <<100, 1>> >>, asks |-> << >>]
RowsNone == [bids |-> << >>, asks |-> << >>]
\* rows no order book row can be made of: a price that is no price
RowsMalformed == [bids |-> << <<0, 1>> >>, asks |-> << >>]

\* OrderBookMessage: the fields _track_single_book reads
Message(type, pair, ts, rows) ==
    [type |-> type, trading_pair |-> pair, timestamp |-> ts,
     bids |-> rows.bids, asks |-> rows.asks]

\* the feed of Spec: one diff per pair and one snapshot
DiffMessages ==
    {Message(DIFF, p, 101, RowsUpsert) : p \in Pairs}

SnapshotMessages ==
    {Message(SNAPSHOT, "BTC-USD", 100, RowsSnapshot)}

\* the feed of SpecBook: diffs of one pair with every token, out of order and
\* duplicated, and its snapshot
BookDiffMessages ==
    {Message(DIFF, "BTC-USD", t, r) : t \in Tokens, r \in {RowsUpsert, RowsDelete}}

BookSnapshotMessages ==
    {Message(SNAPSHOT, "BTC-USD", 100, RowsSnapshot)}

(***************************************************************************)
(* The order book: the rows of each side and the last-applied token.       *)
(***************************************************************************)
EmptyBook == [bids |-> {}, asks |-> {}, last_applied |-> 0]

RECURSIVE ApplyRows(_, _)
\* one side of apply_diffs: a row replaces the level at its price, size 0 removes it
ApplyRows(side, rows) ==
    IF rows = << >> THEN side
    ELSE LET r == Head(rows)
             erased == {e \in side : e[1] # r[1]}
         IN ApplyRows(IF r[2] > 0 THEN erased \cup {r} ELSE erased, Tail(rows))

\* OrderBook.apply_diffs(bids, asks, update_id)
apply_diffs(ob, bids, asks, update_id) ==
    [bids |-> ApplyRows(ob.bids, bids),
     asks |-> ApplyRows(ob.asks, asks),
     last_applied |-> update_id]

\* OrderBook.apply_snapshot(bids, asks, update_id)
apply_snapshot(ob, bids, asks, update_id) ==
    [bids |-> {bids[i] : i \in 1..Len(bids)},
     asks |-> {asks[i] : i \in 1..Len(asks)},
     last_applied |-> update_id]

\* FtxActiveOrderTracker.convert_diff_message_to_order_book_row
convert_diff_message_to_order_book_row(message) ==
    [bids |-> message.bids, asks |-> message.asks]

\* FtxActiveOrderTracker.convert_snapshot_message_to_order_book_row
convert_snapshot_message_to_order_book_row(message) ==
    [bids |-> message.bids, asks |-> message.asks]

\* the error convert_*_message_to_order_book_row and apply_* raise for a message
ApplyError(message) ==
    IF \E i \in 1..Len(message.bids) : message.bids[i][1] \notin Prices
    THEN "ValueError"
    ELSE IF \E i \in 1..Len(message.asks) : message.asks[i][1] \notin Prices
    THEN "ValueError"
    ELSE "none"

\* the except clauses of _track_single_book with every error raised again
track_except_Raise(error) == "raise"

\* the except clauses of _track_single_book: CancelledError is raised again,
\* any other exception is logged and followed by asyncio.sleep(5.0)
track_except(error) ==
    IF error = "CancelledError" THEN "raise" ELSE "sleep"

\* the branch of _track_single_book on the message type, with the diff branch only
ApplyMessage_DiffOnly(ob, message) ==
    LET rows == convert_diff_message_to_order_book_row(message)
    IN apply_diffs(ob, rows.bids, rows.asks, message.timestamp)

\* the branch of _track_single_book on the message type, bids and asks swapped
ApplyMessage_Swapped(ob, message) ==
    IF message.type = DIFF
    THEN LET rows == convert_diff_message_to_order_book_row(message)
         IN apply_diffs(ob, rows.asks, rows.bids, message.timestamp)
    ELSE LET rows == convert_snapshot_message_to_order_book_row(message)
         IN apply_snapshot(ob, rows.bids, rows.asks, message.timestamp)

\* _track_single_book: what one message does to the task's order book
ApplyMessage(ob, message) ==
    IF message.type = DIFF
    THEN LET rows == convert_diff_message_to_order_book_row(message)
         IN apply_diffs(ob, rows.bids, rows.asks, message.timestamp)
    ELSE IF message.type = SNAPSHOT
    THEN LET rows == convert_snapshot_message_to_order_book_row(message)
         IN apply_snapshot(ob, rows.bids, rows.asks, message.timestamp)
    ELSE ob

\* deque.append without the maxlen of the deque
deque_append_Unbounded(d, x) == Append(d, x)

\* deque.append on a full deque discarding the new element
deque_append_DropNewest(d, x) ==
    IF Len(d) >= SavedMaxLen THEN d ELSE Append(d, x)

\* deque(maxlen=...).append: a full deque discards its oldest element
deque_append(d, x) ==
    IF Len(d) >= SavedMaxLen THEN Append(Tail(d), x) ELSE Append(d, x)

\* past_diffs_window.append followed by the popleft loop
past_diffs_append(w, x) ==
    LET a == Append(w, x)
    IN IF Len(a) > PAST_DIFF_WINDOW_SIZE
       THEN SubSeq(a, Len(a) - PAST_DIFF_WINDOW_SIZE + 1, Len(a))
       ELSE a

(***************************************************************************)
(* The net effect of a message sequence, kept as a size per price (0: no   *)
(* level): a snapshot replaces every level, a diff the levels it names.    *)
(***************************************************************************)
NoLevels == [p \in Prices |-> 0]

LastRow(rows, p) ==
    rows[CHOOSE i \in 1..Len(rows) :
            /\ rows[i][1] = p
            /\ \A j \in (i + 1)..Len(rows) : rows[j][1] # p]

NetRows(levels, rows) ==
    [p \in Prices |->
        IF \E i \in 1..Len(rows) : rows[i][1] = p
        THEN LastRow(rows, p)[2] ELSE levels[p]]

NetEffect(net, message) ==
    IF message.type = SNAPSHOT
    THEN [bids |-> NetRows(NoLevels, message.bids),
          asks |-> NetRows(NoLevels, message.asks)]
    ELSE [bids |-> NetRows(net.bids, message.bids),
          asks |-> NetRows(net.asks, message.asks)]

LevelRows(levels) == {<<p, levels[p]>> : p \in {q \in Prices : levels[q] > 0}}

(***************************************************************************)
(* State.                                                                  *)
(***************************************************************************)
VARIABLES
    _tracking_tasks,           \* keys of the dict trading pair -> task
    _order_books,              \* keys of the dict trading pair -> order book
    _tracking_message_queues,  \* keys of the dict trading pair -> inbound queue
    _active_order_trackers,    \* keys of the defaultdict of active order trackers
    _saved_message_queues,     \* trading pair -> replay buffer (a defaultdict)
    _past_diffs_windows,       \* keys of the dict trading pair -> past-diffs window
    task,                      \* trading pair -> the coroutine of its latest task
    book,                      \* trading pair -> the content of its order book
    queue,                     \* trading pair -> the messages of its inbound queue
    window,                    \* trading pair -> the messages of its past-diffs window
    refresh,                   \* caller -> its pass of _refresh_tracking_tasks in progress
    orphaned,                  \* pairs with an unfinished task no dictionary records
    running,                   \* the pair whose task holds the event loop, or "none"
    delivered,                 \* messages the feed has delivered so far
    hist,                      \* history: trading pair -> what its task has processed
    last,                      \* history: what the last step did
    last_available             \* history: the available set of the last finished pass

\* the state of FtxAPIOrderBookDataSource and of the coroutines that run in it
VARIABLES
    _trading_pairs,            \* the list of trading pairs of the data source
    _websocket_connection,     \* the Connection object in use (its number), or None
    _websocket_hub,            \* the hub of the connection, or None
    _snapshot_msg,             \* trading pair -> the slot of its latest snapshot
    snapshot_queue,            \* the messages put on the snapshot channel
    diff_queue,                \* the messages put on the diff channel
    listener,                  \* listen_for_order_book_stream: position, its local
                               \* connection, Connection objects since the last teardown
    waiter,                    \* the calls of wait_for_snapshot
    poller,                    \* listen_for_order_book_snapshots: its position
    now,                       \* time.time(), in seconds
    created,                   \* Connection objects created so far
    frames,                    \* frames received so far
    flast                      \* history: what the last step of the data source did

tracker_vars == <<_tracking_tasks, _order_books, _tracking_message_queues,
                  _active_order_trackers, _saved_message_queues, _past_diffs_windows,
                  task, book, queue, window, refresh, orphaned, running, delivered,
                  hist, last, last_available>>

feed_vars == <<_trading_pairs, _websocket_connection, _websocket_hub, _snapshot_msg,
               snapshot_queue, diff_queue, listener, waiter, poller, now, created,
               frames, flast>>

vars == <<tracker_vars, feed_vars>>

\* history of a task: the book it started with, whether it has processed a
\* snapshot, the saved diffs it processed before its first snapshot, whether
\* the tokens it processed were in order, and the net effect of their rows
NoHist ==
    [entry |-> EmptyBook, synced |-> FALSE, early |-> << >>, in_order |-> TRUE,
     last_token |-> 0, net |-> [bids |-> NoLevels, asks |-> NoLevels]]

\* history of the last step
NoLast ==
    [action |-> "none", pair |-> "none", type |-> "none", source |-> "none",
     removed |-> FALSE, overflow |-> FALSE, new |-> {}, deleted |-> {},
     same |-> FALSE, error |-> "none"]

NoTask == [pc |-> "none", cancel |-> FALSE]

\* the callers of _refresh_tracking_tasks: the periodic loop of the tracker,
\* and another coroutine that calls it while a pass of the loop is suspended
Loop == "loop"
Callers == {Loop, "other"}

\* no pass in progress
NoPass == [pc |-> "idle", tracking_trading_pair |-> {}]

\* FtxOrderBookTracker.__init__
InitTracker ==
    /\ _tracking_tasks = {}
    /\ _order_books = {}
    /\ _tracking_message_queues = {}
    /\ _active_order_trackers = {}
    /\ _saved_message_queues = << >>
    /\ _past_diffs_windows = {}
    /\ task = [p \in Pairs |-> NoTask]
    /\ book = [p \in Pairs |-> EmptyBook]
    /\ queue = [p \in Pairs |-> << >>]
    /\ window = [p \in Pairs |-> << >>]
    /\ refresh = [caller \in Callers |-> NoPass]
    /\ orphaned = {}
    /\ running = "none"
    /\ delivered = 0
    /\ hist = [p \in Pairs |-> NoHist]
    /\ last = NoLast
    /\ last_available = {}

\* None, where a string or nothing is expected
None == "None"

\* None in _websocket_connection; the Connection objects are numbered from 1
NoConnection == 0

\* None where a trading pair is expected (a pair is a sequence of its parts),
\* and where a slot value is expected (a value v is kept as <<v>>)
Nothing == << >>

\* a call of wait_for_snapshot that has not been made; discarded is history:
\* the stored snapshots the call has taken from the slot and not returned
NoWaiter ==
    [pc |-> "idle", trading_pair |-> Nothing, invoke_timestamp |-> 0, deadline |-> 0,
     wake |-> 0, result |-> Nothing, offered |-> FALSE, discarded |-> {}]

\* history of the last step of the data source
NoFlast ==
    [action |-> "none", error |-> "none", frame |-> None, waiter |-> 0,
     invoked |-> << >>, found |-> FALSE, catalog |-> "not fetched",
     closed |-> NoConnection]

\* the callers of wait_for_snapshot
Waiters == {1, 2}

\* FtxAPIOrderBookDataSource.__init__(trading_pairs)
InitDataSource(trading_pairs) ==
    /\ _trading_pairs = trading_pairs
    /\ _websocket_connection = NoConnection
    /\ _websocket_hub = None
    /\ _snapshot_msg = << >>
    /\ snapshot_queue = << >>
    /\ diff_queue = << >>
    /\ listener = [pc |-> "connect", connection |-> NoConnection, opened |-> 0]
    /\ waiter = [w \in Waiters |-> NoWaiter]
    /\ poller = [pc |-> "cycle"]
    /\ now = 0
    /\ created = 0
    /\ frames = 0
    /\ flast = NoFlast

Init ==
    /\ InitTracker
    /\ InitDataSource(<< >>)

\* dict[key] = value with one value object shared by all the keys
Put_Shared(d, k, v) == [x \in DOMAIN d \cup {k} |-> v]

\* dict[key] = value on a dictionary kept as a function
Put(d, k, v) == [x \in DOMAIN d \cup {k} |-> IF x = k THEN v ELSE d[x]]

\* asyncio.Task.done()
done(pair) == task[pair].pc = "done"

\* the book get_tracking_pairs puts in a tracker entry: a new order book with
\* the rows of the REST snapshot applied to it
EntryBooks ==
    {apply_snapshot(EmptyBook, r.bids, r.asks, 99) : r \in {RowsNone, RowsUpsert}}

\* the results of get_tracking_pairs: a tracker entry for every pair whose
\* snapshot could be fetched
AvailablePairs ==
    UNION {[S -> EntryBooks] : S \in SUBSET Pairs}

\* get_tracking_pairs when the exchange lists one pair only
BookAvailablePairs ==
    UNION {[S -> EntryBooks] : S \in SUBSET {"BTC-USD"}}

(***************************************************************************)
(* _refresh_tracking_tasks                                                 *)
(***************************************************************************)
\* the trading pairs whose recorded task is not done
TrackingTradingPair ==
    {key \in _tracking_tasks : ~done(key)}

\* the new pairs taken to be all the available pairs
new_trading_pair_All(available_trading_pair, tracking_trading_pair) ==
    available_trading_pair

\* new_trading_pair: available and not tracked
new_trading_pair(available_trading_pair, tracking_trading_pair) ==
    available_trading_pair \ tracking_trading_pair

\* the deleted pairs taken to be none
deleted_trading_pair_None(available_trading_pair, tracking_trading_pair) ==
    {}

\* deleted_trading_pair: tracked and no longer available
deleted_trading_pair(available_trading_pair, tracking_trading_pair) ==
    tracking_trading_pair \ available_trading_pair

\* the dictionary _order_books with the del statement left out
order_books_del_Missing(keys, deleted) == keys

\* del self._order_books[trading_pair] for the deleted pairs
order_books_del(keys, deleted) == keys \ deleted

\* a task object that has not finished
Unfinished(t) == t.pc \in {"new", "run", "sleep"}

\* up to the await of get_tracking_pairs.  The passes are periodic: the loop
\* sleeps after a pass, and a task the pass created takes its first step
\* (scheduled by ensure_future) before the next pass begins
RefreshRead(caller) ==
    /\ running = "none"
    /\ refresh[caller].pc = "idle"
    /\ \A p \in Pairs : task[p].pc # "new"
    /\ refresh' = [refresh EXCEPT ![caller] =
                     [pc |-> "await", tracking_trading_pair |-> TrackingTradingPair]]
    /\ last' = [NoLast EXCEPT !.action = "read"]
    /\ UNCHANGED <<_tracking_tasks, _order_books, _tracking_message_queues,
                   _active_order_trackers, _saved_message_queues,
                   _past_diffs_windows, task, book, queue, window, running,
                   delivered, hist, last_available, orphaned>>
    /\ UNCHANGED feed_vars

\* from the result of get_tracking_pairs to the end of the pass.  cancel() and
\* ensure_future hand the task to the loop with call_soon and the loop runs
\* its callbacks in order: a task cancelled by an earlier pass has ended by
\* the time a pass resumes with a snapshot fetched for the same pair.  The
\* loop over the new pairs overwrites what the dictionaries hold for a pair,
\* so an unfinished task it replaces is recorded nowhere any more; the loop
\* over the deleted pairs ends with KeyError at the first pair that is no
\* longer in _tracking_tasks, having removed the pairs it came to before
RefreshApply(caller, available_pairs) ==
    LET available_trading_pair == DOMAIN available_pairs
        tracking_trading_pair == refresh[caller].tracking_trading_pair
        new == new_trading_pair(available_trading_pair, tracking_trading_pair)
        deleted == deleted_trading_pair(available_trading_pair, tracking_trading_pair)
    IN \E removed \in SUBSET deleted :
       /\ running = "none"
       /\ refresh[caller].pc = "await"
       /\ \A p \in new : task[p].pc \in {"none", "done"} \/ ~task[p].cancel
       /\ IF deleted \subseteq _tracking_tasks
          THEN removed = deleted
          ELSE removed \subseteq _tracking_tasks
       /\ _active_order_trackers' = (_active_order_trackers \cup new) \ removed
       /\ _order_books' = order_books_del(_order_books \cup new, removed)
       /\ _tracking_message_queues' = (_tracking_message_queues \cup new) \ removed
       /\ _tracking_tasks' = (_tracking_tasks \cup new) \ removed
       /\ orphaned' = orphaned \cup {p \in new : Unfinished(task[p])}
       /\ task' = [p \in Pairs |->
                     IF p \in new THEN [pc |-> "new", cancel |-> FALSE]
                     ELSE IF p \in removed /\ ~done(p)
                     THEN [task[p] EXCEPT !.cancel = TRUE]
                     ELSE task[p]]
       /\ book' = [p \in Pairs |-> IF p \in new THEN available_pairs[p] ELSE book[p]]
       /\ queue' = [p \in Pairs |-> IF p \in new THEN << >> ELSE queue[p]]
       /\ hist' = [p \in Pairs |->
                     IF p \in new THEN [NoHist EXCEPT !.entry = available_pairs[p]]
                     ELSE hist[p]]
       /\ refresh' = [refresh EXCEPT ![caller] = NoPass]
       /\ last' = [NoLast EXCEPT !.action = "refresh", !.new = new,
                                 !.deleted = removed,
                                 !.same = (available_trading_pair = last_available),
                                 !.error = IF deleted \subseteq _tracking_tasks
                                           THEN "none" ELSE "KeyError"]
       /\ last_available' = available_trading_pair
       /\ UNCHANGED <<_saved_message_queues, _past_diffs_windows, window,
                      running, delivered>>
       /\ UNCHANGED feed_vars

(***************************************************************************)
(* _track_single_book                                                      *)
(***************************************************************************)
\* the replay buffer of a pair as the defaultdict hands it out
SavedMessages(pair) ==
    IF pair \in DOMAIN _saved_message_queues
    THEN _saved_message_queues[pair] ELSE << >>

\* the next message taken from the inbound queue even if messages are saved
NextSource_QueueFirst(saved_messages, message_queue) ==
    IF Len(message_queue) > 0 THEN "queue" ELSE "saved"

\* where the loop takes its next message from: the saved messages first
NextSource(saved_messages, message_queue) ==
    IF Len(saved_messages) > 0 THEN "saved" ELSE "queue"

\* a message is at hand: the loop does not suspend in message_queue.get()
HasMessage(pair) ==
    Len(SavedMessages(pair)) > 0 \/ Len(queue[pair]) > 0

\* the message the task's next iteration processes
NextMessage(pair) ==
    IF NextSource(SavedMessages(pair), queue[pair]) = "saved"
    THEN Head(SavedMessages(pair)) ELSE Head(queue[pair])

\* the first run of the coroutine, up to its first suspension or message
TaskStart(pair) ==
    /\ running = "none"
    /\ task[pair].pc = "new"
    /\ ~task[pair].cancel
    /\ window' = [window EXCEPT ![pair] = << >>]
    /\ _past_diffs_windows' = _past_diffs_windows \cup {pair}
    /\ IF pair \in _tracking_message_queues /\ pair \in _order_books
       THEN /\ task' = [task EXCEPT ![pair].pc = "run"]
            /\ _saved_message_queues' =
                 Put(_saved_message_queues, pair, SavedMessages(pair))
            /\ _active_order_trackers' = _active_order_trackers \cup {pair}
            /\ running' = IF HasMessage(pair) THEN pair ELSE "none"
       ELSE /\ task' = [task EXCEPT ![pair].pc = "done"]
            /\ UNCHANGED <<_saved_message_queues, _active_order_trackers, running>>
    /\ last' = [NoLast EXCEPT !.action = "start", !.pair = pair]
    /\ UNCHANGED <<_tracking_tasks, _order_books, _tracking_message_queues,
                   book, queue, refresh, delivered, hist, last_available>>
    /\ UNCHANGED <<orphaned, feed_vars>>

\* the history of a task after it has processed message
Processed(h, message, source) ==
    [entry |-> h.entry,
     synced |-> h.synced \/ message.type = SNAPSHOT,
     early |-> IF h.synced \/ message.type = SNAPSHOT THEN << >>
               ELSE IF source = "saved" THEN Append(h.early, message)
               ELSE h.early,
     in_order |-> h.in_order /\ (h.last_token = 0 \/ message.timestamp >= h.last_token),
     last_token |-> message.timestamp,
     net |-> NetEffect(h.net, message)]

\* one iteration of the loop: take a message, apply it, and reach the next
\* iteration's wait point; if applying the message raises, the message is gone,
\* the book is as it was and the task sleeps in the except clause
TrackSingleBook(pair) ==
    LET source == NextSource(SavedMessages(pair), queue[pair])
        message == NextMessage(pair)
        saved_after == IF source = "saved" THEN Tail(SavedMessages(pair))
                       ELSE SavedMessages(pair)
        queue_after == IF source = "queue" THEN Tail(queue[pair]) ELSE queue[pair]
        error == IF message.type \in {DIFF, SNAPSHOT} THEN ApplyError(message)
                 ELSE "none"
        book_after == IF error = "none" THEN ApplyMessage(book[pair], message)
                      ELSE book[pair]
    IN /\ running \in {"none", pair}
       /\ task[pair].pc = "run"
       /\ ~task[pair].cancel
       /\ HasMessage(pair)
       /\ _saved_message_queues' = Put(_saved_message_queues, pair, saved_after)
       /\ queue' = [queue EXCEPT ![pair] = queue_after]
       /\ book' = [book EXCEPT ![pair] = book_after]
       /\ window' = IF message.type = DIFF /\ error = "none"
                    THEN [window EXCEPT ![pair] = past_diffs_append(window[pair], message)]
                    ELSE window
       /\ _active_order_trackers' = _active_order_trackers \cup {pair}
       /\ hist' = IF error = "none"
                  THEN [hist EXCEPT ![pair] = Processed(hist[pair], message, source)]
                  ELSE hist
       /\ last' = [NoLast EXCEPT !.action = "track", !.pair = pair,
                                 !.type = message.type, !.source = source,
                                 !.removed = (\E r \in book[pair].bids \cup book[pair].asks :
                                                 r \notin book_after.bids \cup book_after.asks),
                                 !.error = error]
       /\ task' = IF error = "none" THEN task
                  ELSE IF track_except(error) = "sleep"
                  THEN [task EXCEPT ![pair].pc = "sleep"]
                  ELSE [task EXCEPT ![pair].pc = "done"]
       /\ running' = IF error = "none" /\ (Len(saved_after) > 0 \/ Len(queue_after) > 0)
                     THEN pair ELSE "none"
       /\ UNCHANGED <<_tracking_tasks, _order_books, _tracking_message_queues,
                      _past_diffs_windows, refresh, delivered, last_available>>
       /\ UNCHANGED <<orphaned, feed_vars>>

\* asyncio.sleep(5.0) of the except clause is over: the loop starts its next
\* iteration
SleepOver(pair) ==
    /\ running = "none"
    /\ task[pair].pc = "sleep"
    /\ ~task[pair].cancel
    /\ task' = [task EXCEPT ![pair].pc = "run"]
    /\ _saved_message_queues' = Put(_saved_message_queues, pair, SavedMessages(pair))
    /\ _active_order_trackers' = _active_order_trackers \cup {pair}
    /\ running' = IF HasMessage(pair) THEN pair ELSE "none"
    /\ last' = [NoLast EXCEPT !.action = "resume", !.pair = pair]
    /\ UNCHANGED <<_tracking_tasks, _order_books, _tracking_message_queues,
                   _past_diffs_windows, book, queue, window, refresh, delivered,
                   hist, last_available>>
    /\ UNCHANGED <<orphaned, feed_vars>>

\* the cancellation reaches the coroutine at its wait point and ends the task;
\* the queue and the book that only the task still referred to are freed
CancelledError(pair) ==
    /\ running = "none"
    /\ task[pair].cancel
    /\ ~done(pair)
    /\ task' = [task EXCEPT ![pair] = [pc |-> "done", cancel |-> TRUE]]
    /\ queue' = [queue EXCEPT ![pair] = << >>]
    /\ book' = [book EXCEPT ![pair] = EmptyBook]
    /\ hist' = [hist EXCEPT ![pair] = NoHist]
    /\ last' = [NoLast EXCEPT !.action = "cancelled", !.pair = pair]
    /\ UNCHANGED <<_tracking_tasks, _order_books, _tracking_message_queues,
                   _active_order_trackers, _saved_message_queues,
                   _past_diffs_windows, window, refresh, running,
                   delivered, last_available>>
    /\ UNCHANGED <<orphaned, feed_vars>>

(***************************************************************************)
(* The routers of OrderBookTracker: from the feed to the per-pair queues.  *)
(***************************************************************************)
\* a diff of an untracked pair is saved, a diff of a tracked pair is queued
DiffRouter(ob_message) ==
    LET trading_pair == ob_message.trading_pair
    IN /\ running = "none"
       /\ delivered < MaxMsgs
       /\ delivered' = delivered + 1
       /\ IF trading_pair \notin _tracking_message_queues
          THEN /\ _saved_message_queues' =
                    Put(_saved_message_queues, trading_pair,
                        deque_append(SavedMessages(trading_pair), ob_message))
               /\ queue' = queue
               /\ last' = [NoLast EXCEPT !.action = "saved", !.pair = trading_pair,
                              !.overflow = (Len(SavedMessages(trading_pair)) >= SavedMaxLen)]
          ELSE /\ queue' = [queue EXCEPT ![trading_pair] = Append(@, ob_message)]
               /\ _saved_message_queues' = _saved_message_queues
               /\ last' = [NoLast EXCEPT !.action = "queued", !.pair = trading_pair]
       /\ UNCHANGED <<_tracking_tasks, _order_books, _tracking_message_queues,
                      _active_order_trackers, _past_diffs_windows, task, book,
                      window, refresh, running, hist, last_available>>
       /\ UNCHANGED <<orphaned, feed_vars>>

\* a snapshot of a tracked pair is queued, a snapshot of an untracked pair is dropped
SnapshotRouter(ob_message) ==
    LET trading_pair == ob_message.trading_pair
    IN /\ running = "none"
       /\ delivered < MaxMsgs
       /\ delivered' = delivered + 1
       /\ IF trading_pair \notin _tracking_message_queues
          THEN /\ queue' = queue
               /\ last' = [NoLast EXCEPT !.action = "dropped", !.pair = trading_pair]
          ELSE /\ queue' = [queue EXCEPT ![trading_pair] = Append(@, ob_message)]
               /\ last' = [NoLast EXCEPT !.action = "queued", !.pair = trading_pair]
       /\ UNCHANGED <<_tracking_tasks, _order_books, _tracking_message_queues,
                      _active_order_trackers, _saved_message_queues,
                      _past_diffs_windows, task, book, window, refresh, running,
                      hist, last_available>>
       /\ UNCHANGED <<orphaned, feed_vars>>

(***************************************************************************)
(* Spec: both pairs come and go, the feed carries one diff per pair and a  *)
(* snapshot.                                                               *)
(***************************************************************************)
Next ==
    \/ RefreshRead(Loop)
    \/ \E available_pairs \in AvailablePairs : RefreshApply(Loop, available_pairs)
    \/ \E pair \in Pairs : TaskStart(pair)
    \/ \E pair \in Pairs : TrackSingleBook(pair)
    \/ \E pair \in Pairs : CancelledError(pair)
    \/ \E ob_message \in DiffMessages : DiffRouter(ob_message)
    \/ \E ob_message \in SnapshotMessages : SnapshotRouter(ob_message)

Spec == Init /\ [][Next]_vars

(***************************************************************************)
(* SpecBook: one pair comes and goes, the feed carries its diffs with      *)
(* every token, in any order and duplicated, and its snapshot.             *)
(***************************************************************************)
NextBook ==
    \/ RefreshRead(Loop)
    \/ \E available_pairs \in BookAvailablePairs : RefreshApply(Loop, available_pairs)
    \/ \E pair \in Pairs : TaskStart(pair)
    \/ \E pair \in Pairs : TrackSingleBook(pair)
    \/ \E pair \in Pairs : CancelledError(pair)
    \/ \E ob_message \in BookDiffMessages : DiffRouter(ob_message)
    \/ \E ob_message \in BookSnapshotMessages : SnapshotRouter(ob_message)

SpecBook == Init /\ [][NextBook]_vars

(***************************************************************************)
(* SpecErr: both pairs come and go, and the feed carries well-formed and   *)
(* malformed diffs of both pairs and snapshots of one.                     *)
(***************************************************************************)
ErrDiffMessages ==
    {Message(DIFF, p, 101, r) : p \in Pairs, r \in {RowsUpsert, RowsMalformed}}

ErrSnapshotMessages ==
    {Message(SNAPSHOT, "BTC-USD", 100, r) : r \in {RowsSnapshot, RowsMalformed}}

\* get_tracking_pairs handing out new, empty order books
ErrAvailablePairs ==
    UNION {[S -> {EmptyBook}] : S \in SUBSET Pairs}

NextErr ==
    \/ RefreshRead(Loop)
    \/ \E available_pairs \in ErrAvailablePairs : RefreshApply(Loop, available_pairs)
    \/ \E pair \in Pairs : TaskStart(pair)
    \/ \E pair \in Pairs : TrackSingleBook(pair)
    \/ \E pair \in Pairs : SleepOver(pair)
    \/ \E pair \in Pairs : CancelledError(pair)
    \/ \E ob_message \in ErrDiffMessages : DiffRouter(ob_message)
    \/ \E ob_message \in ErrSnapshotMessages : SnapshotRouter(ob_message)

SpecErr == Init /\ [][NextErr]_vars

(***************************************************************************)
(* SpecPasses: two coroutines call _refresh_tracking_tasks, so that a pass *)
(* of one can run while a pass of the other is suspended in                *)
(* get_tracking_pairs.  The feed is silent: the tasks start and wait.  A   *)
(* task that no dictionary records any more can be neither cancelled nor   *)
(* found by a pass, and with no message to process it stays as it is.      *)
(***************************************************************************)
NextPasses ==
    \/ \E caller \in Callers : RefreshRead(caller)
    \/ \E caller \in Callers, available_pairs \in ErrAvailablePairs :
          RefreshApply(caller, available_pairs)
    \/ \E pair \in Pairs : TaskStart(pair)
    \/ \E pair \in Pairs : CancelledError(pair)

SpecPasses == Init /\ [][NextPasses]_vars

(***************************************************************************)
(* FtxAPIOrderBookDataSource: the connection and the frame stream.         *)
(***************************************************************************)
\* Connection objects created in one behaviour
MaxConnections == 4
\* frames received in one behaviour of SpecFeed and of SpecWait
MaxFrames == 2

\* the name of a trading pair, BASE<sep>QUOTE
TradingPair(base, sep, quote) == [base |-> base, sep |-> sep, quote |-> quote]

\* the lists of trading pairs a data source is constructed with
TradingPairLists ==
    {<< >>, <<TradingPair("BTC", "/", "USD")>>, <<TradingPair("BTC", "-", "USD")>>}

\* str.split(sep) of a pair name
split(name, sep) ==
    IF name.sep = sep THEN <<name.base, name.quote>> ELSE <<name>>

\* the HTTP status of the response to the market request
HttpStatuses == {200, 500}

\* get_active_exchange_markets: a status other than 200 raises IOError; with
\* status 200 response.json() is not awaited and iterating over the coroutine
\* it returns raises TypeError
get_active_exchange_markets(status) ==
    IF status # 200 THEN [error |-> "IOError", index |-> << >>]
    ELSE [error |-> "TypeError", index |-> << >>]

\* get_trading_pairs without its except clause
get_trading_pairs_Raise(trading_pairs, status) ==
    IF trading_pairs = << >>
    THEN LET active_markets == get_active_exchange_markets(status)
         IN [error |-> active_markets.error, trading_pairs |-> active_markets.index,
             catalog |-> active_markets.error]
    ELSE [error |-> "none", trading_pairs |-> trading_pairs, catalog |-> "not fetched"]

\* get_trading_pairs: the list of the data source; an empty list is fetched
\* with get_active_exchange_markets, and any error of the fetch leaves []
get_trading_pairs(trading_pairs, status) ==
    IF trading_pairs = << >>
    THEN LET active_markets == get_active_exchange_markets(status)
         IN IF active_markets.error = "none"
            THEN [error |-> "none", trading_pairs |-> active_markets.index,
                  catalog |-> "none"]
            ELSE [error |-> "none", trading_pairs |-> << >>,
                  catalog |-> active_markets.error]
    ELSE [error |-> "none", trading_pairs |-> trading_pairs, catalog |-> "not fetched"]

RECURSIVE Subscribe(_, _, _)
\* the loop of websocket_connection over the trading pairs: the calls it
\* invokes on the hub and the error that ends it
Subscribe(trading_pairs, hub, invoked) ==
    IF trading_pairs = << >> THEN [error |-> "none", invoked |-> invoked]
    ELSE LET parts == split(Head(trading_pairs), "/")
         IN IF Len(parts) < 2
            THEN [error |-> "IndexError", invoked |-> invoked]
            ELSE IF hub = None
            THEN [error |-> "AttributeError", invoked |-> invoked]
            ELSE LET trading_pair == <<parts[2], parts[1]>>
                 IN Subscribe(Tail(trading_pairs), hub,
                              invoked \o << <<"SubscribeToExchangeDeltas", trading_pair>>,
                                            <<"queryExchangeState", trading_pair>> >>)

\* websocket_connection: the connection it leaves in _websocket_connection,
\* whether it created one, the list get_trading_pairs leaves in _trading_pairs,
\* the calls invoked on the hub and the error raised
websocket_connection(connection, hub, trading_pairs, new_connection, status) ==
    IF connection # NoConnection /\ hub # None
    THEN [error |-> "none", connection |-> connection, created |-> FALSE,
          invoked |-> << >>, trading_pairs |-> trading_pairs,
          catalog |-> "not fetched"]
    ELSE LET got == get_trading_pairs(trading_pairs, status)
             sub == IF got.error # "none"
                    THEN [error |-> got.error, invoked |-> << >>]
                    ELSE Subscribe(got.trading_pairs, hub, << >>)
         IN [error |-> sub.error, connection |-> new_connection, created |-> TRUE,
             invoked |-> sub.invoked, trading_pairs |-> got.trading_pairs,
             catalog |-> got.catalog]

\* a frame of the stream: whether it carries the full-book marker "R" and the
\* market-update marker "uE", and the payload encoded in it
Frame(R, uE, encoding, M, N) ==
    [R |-> R, uE |-> uE, payload |-> [encoding |-> encoding, M |-> M, N |-> N]]

Encodings == {"ok", "bad_base64", "bad_zlib", "bad_json"}

\* the frames the exchange sends; instrument ids on the wire are QUOTE-BASE
Frames ==
    {Frame(R, uE, e, <<"USD", "BTC">>, 1) : R \in BOOLEAN, uE \in BOOLEAN, e \in Encodings}
    \cup {Frame(R, uE, "ok", <<"USD", "ETH">>, 1) : R \in BOOLEAN, uE \in BOOLEAN}

\* _decode_message: base64 and zlib errors give {}, a JSON error is raised
_decode_message(raw_message) ==
    IF raw_message.encoding \in {"bad_base64", "bad_zlib"}
    THEN [error |-> "none", value |-> << >>]
    ELSE IF raw_message.encoding = "bad_json"
    THEN [error |-> "ValueError", value |-> << >>]
    ELSE [error |-> "none", value |-> ("M" :> raw_message.M @@ "N" :> raw_message.N)]

_is_snapshot(msg) == msg.R

_is_market_delta(msg) == msg.uE

\* the branch of _transform_raw_message a frame takes, the delta test first
Classify_DeltaFirst(msg) ==
    IF _is_market_delta(msg) THEN "update"
    ELSE IF _is_snapshot(msg) THEN "snapshot"
    ELSE None

\* the branch of _transform_raw_message a frame takes
Classify(msg) ==
    IF _is_snapshot(msg) THEN "snapshot"
    ELSE IF _is_market_delta(msg) THEN "update"
    ELSE None

\* the instrument id left as it is on the wire
normalize_Identity(M) == M

\* 'Quote-Base' -> 'Base-Quote'
normalize(M) == <<M[2], M[1]>>

\* _transform_raw_message: the output dictionary, or the error raised
_transform_raw_message(msg) ==
    LET type == Classify(msg)
    IN IF type = None
       THEN [error |-> "none", type |-> None, nonce |-> None, results |-> << >>]
       ELSE LET decoded == _decode_message(msg.payload)
            IN IF decoded.error # "none"
               THEN [error |-> decoded.error, type |-> None, nonce |-> None,
                     results |-> << >>]
               ELSE IF "M" \notin DOMAIN decoded.value
               THEN [error |-> "KeyError", type |-> None, nonce |-> None,
                     results |-> << >>]
               ELSE IF Len(decoded.value["M"]) < 2
               THEN [error |-> "IndexError", type |-> None, nonce |-> None,
                     results |-> << >>]
               ELSE [error |-> "none", type |-> type, nonce |-> decoded.value["N"],
                     results |-> [decoded.value EXCEPT !["M"] = normalize(@)]]

\* FtxOrderBook.snapshot_message_from_exchange
snapshot_message_from_exchange(results, timestamp) ==
    [type |-> SNAPSHOT, trading_pair |-> results["M"], update_id |-> timestamp]

\* FtxOrderBook.diff_message_from_exchange
diff_message_from_exchange(results, timestamp) ==
    [type |-> DIFF, trading_pair |-> results["M"], update_id |-> timestamp]

\* the except clause of _socket_stream reraising every error
socket_stream_except_Raise(error) == "raise"

\* the except clause of _socket_stream: a TimeoutError ends the generator
socket_stream_except(error) ==
    IF error = "TimeoutError" THEN "return" ELSE "raise"

\* the slot of a snapshot stored now; stored numbers the frames that stored one
Slot(content) ==
    [timestamp |-> now, content |-> content, stored |-> frames + 1]

(***************************************************************************)
(* listen_for_order_book_stream and _socket_stream                         *)
(***************************************************************************)
\* the finally clause of listen_for_order_book_stream: it closes the connection
\* the loop obtained at its top (the local variable connection) and clears
\* the two fields; the loop goes on
Teardown ==
    /\ _websocket_connection' = NoConnection
    /\ _websocket_hub' = None
    /\ listener' = [pc |-> "connect", connection |-> NoConnection, opened |-> 0]

\* the call of websocket_connection at the top of the loop, outside the try
ListenConnect(status) ==
    LET c == websocket_connection(_websocket_connection, _websocket_hub,
                                  _trading_pairs, created + 1, status)
    IN /\ listener.pc = "connect"
       /\ created < MaxConnections
       /\ _websocket_connection' = c.connection
       /\ _trading_pairs' = c.trading_pairs
       /\ created' = IF c.created THEN created + 1 ELSE created
       /\ listener' =
            IF c.error = "none"
            THEN [pc |-> "stream", connection |-> c.connection,
                  opened |-> IF c.created THEN listener.opened + 1 ELSE listener.opened]
            ELSE [pc |-> "stopped", connection |-> NoConnection,
                  opened |-> IF c.created THEN listener.opened + 1 ELSE listener.opened]
       /\ flast' = [NoFlast EXCEPT !.action = "connect", !.error = c.error,
                                   !.invoked = c.invoked, !.catalog = c.catalog]
       /\ UNCHANGED <<_websocket_hub, _snapshot_msg, snapshot_queue,
                      diff_queue, waiter, poller, now, frames>>
       /\ UNCHANGED tracker_vars

\* an iteration of _socket_stream up to the wait for a frame: it calls
\* websocket_connection inside the timeout block
SocketStreamConnect(status) ==
    LET c == websocket_connection(_websocket_connection, _websocket_hub,
                                  _trading_pairs, created + 1, status)
    IN /\ listener.pc = "stream"
       /\ created < MaxConnections
       /\ created' = IF c.created THEN created + 1 ELSE created
       /\ _trading_pairs' = c.trading_pairs
       /\ IF c.error = "none"
          THEN /\ _websocket_connection' = c.connection
               /\ _websocket_hub' = _websocket_hub
               /\ listener' = [listener EXCEPT
                                 !.pc = "wait",
                                 !.opened = IF c.created THEN @ + 1 ELSE @]
          ELSE Teardown
       /\ flast' = [NoFlast EXCEPT !.action = "stream", !.error = c.error,
                                   !.invoked = c.invoked, !.catalog = c.catalog,
                                   !.closed = IF c.error = "none" THEN NoConnection
                                              ELSE listener.connection]
       /\ UNCHANGED <<_snapshot_msg, snapshot_queue, diff_queue,
                      waiter, poller, now, frames>>
       /\ UNCHANGED tracker_vars

\* a frame arrives: the body of the loop of listen_for_order_book_stream
SocketStreamFrame(raw_message) ==
    LET decoded == _transform_raw_message(raw_message)
        trading_pair == IF "M" \in DOMAIN decoded.results
                        THEN decoded.results["M"] ELSE Nothing
        snapshot_msg == snapshot_message_from_exchange(decoded.results, decoded.nonce)
        diff_msg == diff_message_from_exchange(decoded.results, decoded.nonce)
    IN /\ listener.pc = "wait"
       /\ frames' = frames + 1
       /\ IF decoded.error # "none"
          THEN /\ Teardown
               /\ UNCHANGED <<snapshot_queue, diff_queue, _snapshot_msg, waiter>>
          ELSE /\ listener' = [listener EXCEPT !.pc = "stream"]
               /\ UNCHANGED <<_websocket_connection, _websocket_hub>>
               /\ IF trading_pair # Nothing /\ decoded.type = "snapshot"
                  THEN /\ snapshot_queue' = Append(snapshot_queue, snapshot_msg)
                       /\ _snapshot_msg' = Put(_snapshot_msg, trading_pair,
                                               Slot(snapshot_msg))
                       /\ waiter' = [w \in Waiters |->
                                       IF /\ waiter[w].pc = "sleep"
                                          /\ waiter[w].trading_pair = trading_pair
                                          /\ now >= waiter[w].invoke_timestamp
                                       THEN [waiter[w] EXCEPT !.offered = TRUE]
                                       ELSE waiter[w]]
                  ELSE UNCHANGED <<snapshot_queue, _snapshot_msg, waiter>>
               /\ IF trading_pair # Nothing /\ decoded.type = "update"
                  THEN diff_queue' = Append(diff_queue, diff_msg)
                  ELSE diff_queue' = diff_queue
       /\ flast' = [NoFlast EXCEPT !.action = "frame", !.error = decoded.error,
                                   !.frame = raw_message,
                                   !.closed = IF decoded.error = "none" THEN NoConnection
                                              ELSE listener.connection]
       /\ UNCHANGED <<_trading_pairs, poller, now, created>>
       /\ UNCHANGED tracker_vars

\* no frame within MESSAGE_TIMEOUT: the timeout block raises TimeoutError
SocketStreamTimeout ==
    /\ listener.pc = "wait"
    /\ Teardown
    /\ flast' = [NoFlast EXCEPT
                   !.action = "timeout",
                   !.error = IF socket_stream_except("TimeoutError") = "return"
                             THEN "none" ELSE "TimeoutError",
                   !.closed = listener.connection]
    /\ UNCHANGED <<_trading_pairs, _snapshot_msg, snapshot_queue, diff_queue,
                   waiter, poller, now, created, frames>>
    /\ UNCHANGED tracker_vars

(***************************************************************************)
(* listen_for_order_book_snapshots                                         *)
(***************************************************************************)
RECURSIVE Query(_, _, _)
\* the loop of listen_for_order_book_snapshots over the trading pairs: the
\* calls it invokes on the hub and the error that ends it
Query(trading_pairs, hub, invoked) ==
    IF trading_pairs = << >> THEN [error |-> "none", invoked |-> invoked]
    ELSE LET parts == split(Head(trading_pairs), "-")
         IN IF Len(parts) < 2
            THEN [error |-> "IndexError", invoked |-> invoked]
            ELSE IF hub = None
            THEN [error |-> "AttributeError", invoked |-> invoked]
            ELSE LET trading_pair == <<parts[2], parts[1]>>
                 IN Query(Tail(trading_pairs), hub,
                          invoked \o << <<"queryExchangeState", trading_pair>> >>)

\* one cycle of listen_for_order_book_snapshots up to its sleep: it calls
\* websocket_connection and get_trading_pairs and requests a snapshot of every
\* pair; an error is logged by the except clause, which does not sleep, and
\* the loop starts its next cycle
SnapshotsCycle(status) ==
    LET c == websocket_connection(_websocket_connection, _websocket_hub,
                                  _trading_pairs, created + 1, status)
        got == get_trading_pairs(c.trading_pairs, status)
        q == IF c.error # "none" THEN [error |-> c.error, invoked |-> << >>]
             ELSE Query(got.trading_pairs, _websocket_hub, << >>)
    IN /\ poller.pc = "cycle"
       /\ created < MaxConnections
       /\ created' = IF c.created THEN created + 1 ELSE created
       /\ _websocket_connection' = c.connection
       /\ _trading_pairs' = IF c.error = "none" THEN got.trading_pairs
                            ELSE c.trading_pairs
       /\ poller' = [pc |-> IF q.error = "none" THEN "sleep" ELSE "cycle"]
       /\ flast' = [NoFlast EXCEPT !.action = "cycle", !.error = q.error,
                                   !.invoked = c.invoked \o q.invoked,
                                   !.catalog = IF c.error = "none" THEN got.catalog
                                               ELSE c.catalog]
       /\ UNCHANGED <<_websocket_hub, _snapshot_msg, snapshot_queue, diff_queue,
                      listener, waiter, now, frames>>
       /\ UNCHANGED tracker_vars

\* the sleep until the next full hour is over: the next cycle
SnapshotsWake ==
    /\ poller.pc = "sleep"
    /\ poller' = [pc |-> "cycle"]
    /\ flast' = [NoFlast EXCEPT !.action = "wake"]
    /\ UNCHANGED <<_trading_pairs, _websocket_connection, _websocket_hub,
                   _snapshot_msg, snapshot_queue, diff_queue, listener, waiter,
                   now, created, frames>>
    /\ UNCHANGED tracker_vars

(***************************************************************************)
(* wait_for_snapshot                                                       *)
(***************************************************************************)
\* the seconds a behaviour lasts
MaxTime == 3
\* SNAPSHOT_TIMEOUT, scaled down
SNAPSHOT_TIMEOUT == 2
\* the seconds between two polls of the slot
PollSleep == 1

\* the instruments and timestamps wait_for_snapshot is called with
WaitPairs == {<<"BTC", "USD">>}
InvokeTimestamps == {0, 1}

\* dict.get: the slot is left in place
slot_pop_Keep(slots, key) == slots

\* dict.clear(): every slot is emptied
slot_pop_All(slots, key) == << >>

\* the dictionary after dict.pop(key, None)
slot_pop(slots, key) == [k \in DOMAIN slots \ {key} |-> slots[k]]

\* any slot value taken for a match
matches_Any(msg, invoke_timestamp) == msg # Nothing

\* the test of wait_for_snapshot on the slot value
matches(msg, invoke_timestamp) ==
    msg # Nothing /\ msg[1].timestamp >= invoke_timestamp

\* one pass of the loop of wait_for_snapshot by the call w
Poll(w, call) ==
    LET msg == IF call.trading_pair \in DOMAIN _snapshot_msg
               THEN <<_snapshot_msg[call.trading_pair]>> ELSE Nothing
        found == matches(msg, call.invoke_timestamp)
    IN /\ _snapshot_msg' = slot_pop(_snapshot_msg, call.trading_pair)
       /\ waiter' = [waiter EXCEPT ![w] =
                       IF found
                       THEN [call EXCEPT !.pc = "returned", !.result = msg]
                       ELSE [call EXCEPT
                               !.pc = "sleep", !.wake = now + PollSleep,
                               !.discarded = IF msg = Nothing THEN @
                                             ELSE @ \cup {msg[1].stored}]]
       /\ flast' = [NoFlast EXCEPT !.action = "poll", !.waiter = w, !.found = found]

\* wait_for_snapshot is called: the timeout block is entered, the first poll
WaitForSnapshot(w, trading_pair, invoke_timestamp) ==
    /\ waiter[w].pc = "idle"
    /\ Poll(w, [NoWaiter EXCEPT !.trading_pair = trading_pair,
                                !.invoke_timestamp = invoke_timestamp,
                                !.deadline = now + SNAPSHOT_TIMEOUT])
    /\ UNCHANGED <<_trading_pairs, _websocket_connection, _websocket_hub,
                   snapshot_queue, diff_queue, listener, poller, now, created,
                   frames>>
    /\ UNCHANGED tracker_vars

\* asyncio.sleep(1) is over: the next poll
WaitPoll(w) ==
    /\ waiter[w].pc = "sleep"
    /\ now >= waiter[w].wake
    /\ Poll(w, waiter[w])
    /\ UNCHANGED <<_trading_pairs, _websocket_connection, _websocket_hub,
                   snapshot_queue, diff_queue, listener, poller, now, created,
                   frames>>
    /\ UNCHANGED tracker_vars

\* SNAPSHOT_TIMEOUT is over: the timeout block raises TimeoutError in the sleep
WaitTimeout(w) ==
    /\ waiter[w].pc = "sleep"
    /\ now >= waiter[w].deadline
    /\ waiter' = [waiter EXCEPT ![w].pc = "timeout"]
    /\ flast' = [NoFlast EXCEPT !.action = "wait_timeout", !.waiter = w,
                                !.error = "TimeoutError"]
    /\ UNCHANGED <<_trading_pairs, _websocket_connection, _websocket_hub,
                   _snapshot_msg, snapshot_queue, diff_queue, listener, poller,
                   now, created, frames>>
    /\ UNCHANGED tracker_vars

\* a second passes; the timers that are due run first
Tick ==
    /\ now < MaxTime
    /\ \A w \in Waiters :
          waiter[w].pc = "sleep" => (now < waiter[w].wake /\ now < waiter[w].deadline)
    /\ now' = now + 1
    /\ flast' = [NoFlast EXCEPT !.action = "tick"]
    /\ UNCHANGED <<_trading_pairs, _websocket_connection, _websocket_hub,
                   _snapshot_msg, snapshot_queue, diff_queue, listener, waiter,
                   poller, created, frames>>
    /\ UNCHANGED tracker_vars

(***************************************************************************)
(* SpecFeed: the data source is constructed with any of the trading pair   *)
(* lists and receives any frames.                                          *)
(***************************************************************************)
InitFeed ==
    /\ InitTracker
    /\ \E trading_pairs \in TradingPairLists : InitDataSource(trading_pairs)

NextFeed ==
    \/ \E status \in HttpStatuses : ListenConnect(status)
    \/ \E status \in HttpStatuses : SocketStreamConnect(status)
    \/ \E raw_message \in Frames : frames < MaxFrames /\ SocketStreamFrame(raw_message)
    \/ SocketStreamTimeout

SpecFeed == InitFeed /\ [][NextFeed]_vars

(***************************************************************************)
(* SpecWait: snapshot frames arrive while callers wait for the snapshot of *)
(* an instrument; the market request is answered with status 200.          *)
(***************************************************************************)
WaitFrames ==
    {Frame(TRUE, FALSE, "ok", <<"USD", b>>, 1) : b \in {"BTC", "ETH"}}

NextWait ==
    \/ ListenConnect(200)
    \/ SocketStreamConnect(200)
    \/ \E raw_message \in WaitFrames :
          frames < MaxFrames /\ SocketStreamFrame(raw_message)
    \/ SocketStreamTimeout
    \/ \E w \in Waiters, trading_pair \in WaitPairs, invoke_timestamp \in InvokeTimestamps :
          WaitForSnapshot(w, trading_pair, invoke_timestamp)
    \/ \E w \in Waiters : WaitPoll(w)
    \/ \E w \in Waiters : WaitTimeout(w)
    \/ Tick

SpecWait == Init /\ [][NextWait]_vars

(***************************************************************************)
(* SpecPoll: listen_for_order_book_stream and                              *)
(* listen_for_order_book_snapshots run on one data source, constructed     *)
(* with any of the trading pair lists.                                     *)
(***************************************************************************)
NextPoll ==
    \/ \E status \in HttpStatuses : ListenConnect(status)
    \/ \E status \in HttpStatuses : SocketStreamConnect(status)
    \/ \E raw_message \in Frames : frames < MaxFrames /\ SocketStreamFrame(raw_message)
    \/ SocketStreamTimeout
    \/ \E status \in HttpStatuses : SnapshotsCycle(status)
    \/ SnapshotsWake

SpecPoll == InitFeed /\ [][NextPoll]_vars

(***************************************************************************)
(* SpecOrder: the session and the tracker together.  The frames of one     *)
(* instrument arrive numbered in the order the exchange sends them; the    *)
(* session puts their messages on its two channels, and the two routers of *)
(* OrderBookTracker take them from there to the instrument's inbound queue *)
(* or replay buffer.                                                       *)
(***************************************************************************)
\* frames received in one behaviour of SpecOrder
MaxBurst == 3

\* the tracker's name, BASE-QUOTE, of the instrument of a message
PairName(trading_pair) ==
    IF trading_pair = <<"BTC", "USD">> THEN "BTC-USD" ELSE "ETH-USD"

\* a message of the data source as _track_single_book reads it
OrderBookMessage(msg) ==
    Message(msg.type, PairName(msg.trading_pair), msg.update_id, RowsNone)

RECURSIVE RouteAll(_, _)
\* the inbound queues and replay buffers after a router has routed messages,
\* the first one first: a message of a tracked pair is queued, a diff of an
\* untracked pair is saved, a snapshot of an untracked pair is dropped
RouteAll(messages, to) ==
    IF messages = << >> THEN to
    ELSE LET ob_message == Head(messages)
             trading_pair == ob_message.trading_pair
             saved_messages == IF trading_pair \in DOMAIN to.saved
                               THEN to.saved[trading_pair] ELSE << >>
         IN RouteAll(Tail(messages),
                     IF trading_pair \in _tracking_message_queues
                     THEN [to EXCEPT !.queue[trading_pair] = Append(@, ob_message)]
                     ELSE IF ob_message.type = DIFF
                     THEN [to EXCEPT !.saved = Put(@, trading_pair,
                                                   deque_append(saved_messages, ob_message))]
                     ELSE to)

\* the router of channel runs: woken by the first put on its empty channel, it
\* takes every message the channel holds by then, since neither a get on a
\* channel that holds a message nor a put on an unbounded queue suspends it.
\* Of two woken routers the one woken first runs first: that is the one whose
\* first message has the lower number.
ChannelRouter(channel, other) ==
    LET to == RouteAll([i \in 1..Len(channel) |-> OrderBookMessage(channel[i])],
                       [queue |-> queue, saved |-> _saved_message_queues])
    IN /\ running = "none"
       /\ channel # << >>
       /\ IF other = << >> THEN TRUE
          ELSE Head(channel).update_id < Head(other).update_id
       /\ queue' = to.queue
       /\ _saved_message_queues' = to.saved
       /\ last' = [NoLast EXCEPT !.action = "routed", !.type = Head(channel).type]
       /\ UNCHANGED <<_tracking_tasks, _order_books, _tracking_message_queues,
                      _active_order_trackers, _past_diffs_windows, task, book,
                      window, refresh, orphaned, running, delivered, hist,
                      last_available>>
       /\ UNCHANGED <<_trading_pairs, _websocket_connection, _websocket_hub,
                      _snapshot_msg, listener, waiter, poller, now, created,
                      frames, flast>>

\* the diff router of OrderBookTracker on the diff channel
DiffChannelRouter ==
    /\ ChannelRouter(diff_queue, snapshot_queue)
    /\ diff_queue' = << >>
    /\ snapshot_queue' = snapshot_queue

\* the snapshot router of OrderBookTracker on the snapshot channel
SnapshotChannelRouter ==
    /\ ChannelRouter(snapshot_queue, diff_queue)
    /\ snapshot_queue' = << >>
    /\ diff_queue' = diff_queue

\* get_tracking_pairs handing out a new, empty order book of the instrument
OrderAvailablePairs ==
    UNION {[S -> {EmptyBook}] : S \in SUBSET {"BTC-USD"}}

NextOrder ==
    \/ ListenConnect(200)
    \/ SocketStreamConnect(200)
    \/ \E R \in BOOLEAN :
          /\ frames < MaxBurst
          /\ SocketStreamFrame(Frame(R, ~R, "ok", <<"USD", "BTC">>, frames + 1))
    \/ DiffChannelRouter
    \/ SnapshotChannelRouter
    \/ RefreshRead(Loop)
    \/ \E available_pairs \in OrderAvailablePairs : RefreshApply(Loop, available_pairs)
    \/ \E pair \in Pairs : TaskStart(pair)
    \/ \E pair \in Pairs : TrackSingleBook(pair)
    \/ \E pair \in Pairs : CancelledError(pair)

SpecOrder == Init /\ [][NextOrder]_vars

(***************************************************************************)
(* Claims about _track_single_book, checked under SpecBook.                *)
(***************************************************************************)
\* the step just taken is an iteration of pair's task on message type
Tracked(pair, type) ==
    /\ last'.action = "track"
    /\ last'.pair = pair
    /\ last'.type = type

Rows(ob) == [bids |-> ob.bids, asks |-> ob.asks]

\* C1: a diff whose token is less than or equal to the book's last-applied
\* token (as set by a message the task has processed) leaves the book, rows
\* and last-applied token, unchanged
C1_StaleDiffIsNoOp ==
    [][\A pair \in Pairs :
          (/\ Tracked(pair, DIFF)
           /\ hist[pair].last_token # 0
           /\ NextMessage(pair).timestamp <= book[pair].last_applied)
          => book'[pair] = book[pair]]_vars

\* C2: while the task of a pair has processed no snapshot, a diff it receives
\* does not change the pair's order book
C2_DiffBufferedWhileAwaitingSnapshot ==
    [][\A pair \in Pairs :
          (Tracked(pair, DIFF) /\ ~hist[pair].synced)
          => book'[pair] = book[pair]]_vars

RECURSIVE ReplayAll(_, _)
\* the diffs of a sequence applied one after the other
ReplayAll(ob, diffs) ==
    IF diffs = << >> THEN ob
    ELSE ReplayAll(apply_diffs(ob, Head(diffs).bids, Head(diffs).asks,
                               Head(diffs).timestamp), Tail(diffs))

RECURSIVE SortByToken(_)
\* a sequence of messages in ascending token order
SortByToken(msgs) ==
    IF msgs = << >> THEN << >>
    ELSE LET i == CHOOSE k \in 1..Len(msgs) :
                    \A j \in 1..Len(msgs) : msgs[k].timestamp <= msgs[j].timestamp
         IN <<msgs[i]>> \o
            SortByToken(SubSeq(msgs, 1, i - 1) \o SubSeq(msgs, i + 1, Len(msgs)))

FresherThan(msgs, token) ==
    SelectSeq(msgs, LAMBDA m : m.timestamp > token)

\* C3: processing the first snapshot of a pair, with token T, leaves the book
\* as the snapshot followed by the diffs buffered for the pair before it that
\* have a token greater than T, in ascending token order
C3_BufferedDiffsReplayedAfterSnapshot ==
    [][\A pair \in Pairs :
          (Tracked(pair, SNAPSHOT) /\ ~hist[pair].synced)
          => LET m == NextMessage(pair)
             IN book'[pair] =
                  ReplayAll(apply_snapshot(book[pair], m.bids, m.asks, m.timestamp),
                            SortByToken(FresherThan(hist[pair].early, m.timestamp)))]_vars

\* C4: right after a snapshot message is processed the order book holds
\* exactly the rows of the snapshot and its last-applied token is the
\* snapshot's token
C4_SnapshotReplacesBook ==
    [][\A pair \in Pairs :
          Tracked(pair, SNAPSHOT)
          => LET m == NextMessage(pair)
             IN /\ \A r \in book'[pair].bids : \E i \in 1..Len(m.bids) : m.bids[i] = r
                /\ \A i \in 1..Len(m.bids) : m.bids[i] \in book'[pair].bids
                /\ \A r \in book'[pair].asks : \E i \in 1..Len(m.asks) : m.asks[i] = r
                /\ \A i \in 1..Len(m.asks) : m.asks[i] \in book'[pair].asks
                /\ book'[pair].last_applied = m.timestamp]_vars

\* C4 witness: a snapshot has been processed and a level the book held
\* before it is gone
C4_Witness ==
    /\ last.action = "track"
    /\ last.type = SNAPSHOT
    /\ last.removed
    /\ book[last.pair].bids # {}

\* C5: the last-applied token of a tracked pair's order book never decreases
C5_TokenNeverDecreases ==
    [][\A pair \in Pairs :
          (\E type \in {DIFF, SNAPSHOT} : Tracked(pair, type))
          => book'[pair].last_applied >= book[pair].last_applied]_vars

\* the book a single snapshot with the net effect of the processed rows gives
NetBook(pair) ==
    [bids |-> LevelRows(hist[pair].net.bids),
     asks |-> LevelRows(hist[pair].net.asks),
     last_applied |-> hist[pair].last_token]

C7_ReplayBufferBounded ==
    [][\A pair \in Pairs :
          /\ Len(SavedMessages(pair)') <= SavedMaxLen
          /\ (/\ last'.action = "saved"
              /\ last'.pair = pair
              /\ Len(SavedMessages(pair)) = SavedMaxLen)
             => /\ Len(SavedMessages(pair)') = SavedMaxLen
                /\ SubSeq(SavedMessages(pair)', 1, SavedMaxLen - 1) =
                     Tail(SavedMessages(pair))]_vars

\* C7 witness: a diff has been appended to a full replay buffer that held
\* different messages
C7_Witness ==
    /\ last.action = "saved"
    /\ last.overflow
    /\ \E i, j \in 1..Len(SavedMessages(last.pair)) :
          SavedMessages(last.pair)[i] # SavedMessages(last.pair)[j]

(***************************************************************************)
(* Claims about _refresh_tracking_tasks, checked under Spec.               *)
(***************************************************************************)
\* what a pass does to the pairs it finds available and not tracked, and to
\* the tracked pairs it finds no longer available
PassAlignsTrackedSet ==
    last'.action = "refresh"
    => /\ \A X \in last_available' \ TrackingTradingPair :
             /\ task[X].pc \in {"none", "done"}
             /\ task'[X] = [pc |-> "new", cancel |-> FALSE]
             /\ queue'[X] = << >>
             /\ book'[X] \in EntryBooks
             /\ X \in _tracking_tasks' /\ X \in _order_books'
             /\ X \in _tracking_message_queues'
       /\ \A X \in TrackingTradingPair \ last_available' :
             /\ task'[X].cancel
             /\ X \notin _tracking_tasks' /\ X \notin _order_books'
       /\ _tracking_tasks' = last_available'

C9_SecondPassChangesNothing ==
    [][(last'.action = "refresh" /\ last'.same)
       => UNCHANGED <<_tracking_tasks, _order_books, _tracking_message_queues,
                      _active_order_trackers, task, book, queue>>]_vars

\* C9 witness: a pass has run with the same, non-empty, available set as the
\* pass before it
C9_Witness ==
    /\ last.action = "refresh"
    /\ last.same
    /\ last_available = Pairs
    /\ \E X \in Pairs : task[X].pc = "run"

\* C10: once a pass has removed a pair and the cancellation has ended the
\* pair's task, the task is done and the tracker holds no order book, no
\* inbound queue and no past-diffs window for the pair
C10_RemovalReleasesEverything ==
    [][\A X \in Pairs :
          (last'.action = "cancelled" /\ last'.pair = X)
          => /\ done(X)'
             /\ X \notin _tracking_tasks'
             /\ X \notin _order_books'
             /\ X \notin _tracking_message_queues'
             /\ X \notin _past_diffs_windows']_vars

\* C11: when a pass adds a pair again whose earlier task has ended, the new
\* task starts with nothing left of the earlier one: the pair's replay buffer
\* and inbound queue are empty and no snapshot counts as processed
C11_ReAddStartsClean ==
    [][\A X \in Pairs :
          (last'.action = "refresh" /\ X \in last'.new /\ done(X))
          => /\ SavedMessages(X)' = << >>
             /\ queue'[X] = << >>
             /\ ~hist'[X].synced]_vars

(***************************************************************************)
(* Claims about the connection and the frame stream, checked under         *)
(* SpecFeed.                                                               *)
(***************************************************************************)
\* the step just taken is a call of websocket_connection
Connected == flast'.action \in {"connect", "stream"}

\* C12: a call of websocket_connection made while a connection is established
\* keeps that connection, creates no Connection object and invokes nothing on
\* the hub; at most one Connection object is created between two teardowns
C12_ConnectIsIdempotent ==
    [][/\ (Connected /\ _websocket_connection # NoConnection)
          => /\ _websocket_connection' = _websocket_connection
             /\ created' = created
             /\ flast'.invoked = << >>
       /\ listener'.opened <= 1]_vars

\* C13: while _socket_stream waits for a frame the timeout can end the wait,
\* and when it does the stream ends with no exception and the loop of
\* listen_for_order_book_stream goes on to reconnect
C13_TimeoutEndsStream ==
    /\ [](listener.pc = "wait" => ENABLED SocketStreamTimeout)
    /\ [][flast'.action = "timeout"
          => /\ flast'.error = "none"
             /\ listener'.pc = "connect"
             /\ _websocket_connection' = NoConnection]_vars

\* C13 witness: the stream has timed out after a frame was received
C13_Witness ==
    /\ flast.action = "timeout"
    /\ frames > 0
    /\ listener.pc = "connect"

\* C14: no error of the connect or stream path makes the loop of
\* listen_for_order_book_stream stop
C14_ListenerNeverStops ==
    listener.pc # "stopped"

\* C15: the instruments a call of websocket_connection that connects issues
\* subscribe calls for are the trading pairs of the data source at that time
C15_SubscribesCurrentPairs ==
    [][(Connected /\ created' # created)
       => {call[2] : call \in {flast'.invoked[i] : i \in 1..Len(flast'.invoked)}}
            = {<<_trading_pairs[i].quote, _trading_pairs[i].base>> :
                 i \in 1..Len(_trading_pairs)}]_vars

\* C16: a frame whose payload cannot be decoded raises no exception, puts
\* nothing on a channel or in a slot and leaves the session as it is
C16_UndecodableFrameDropped ==
    [][(flast'.action = "frame" /\ flast'.frame.payload.encoding # "ok")
       => /\ flast'.error = "none"
          /\ UNCHANGED <<snapshot_queue, diff_queue, _snapshot_msg,
                         _websocket_connection>>
          /\ listener'.pc # "connect"]_vars

\* C17: a frame goes to the snapshot channel iff it carries the full-book
\* marker, to the diff channel iff it does not and carries the market-update
\* marker, and nowhere otherwise (a frame whose payload does not decode goes
\* nowhere); a frame is never put on both channels, and only a snapshot
\* changes a slot
C17_FrameClassification ==
    [][flast'.action = "frame"
       => LET f == flast'.frame
              snapshots == Len(snapshot_queue') - Len(snapshot_queue)
              diffs == Len(diff_queue') - Len(diff_queue)
              decodes == f.payload.encoding = "ok"
          IN /\ snapshots \in {0, 1} /\ diffs \in {0, 1} /\ snapshots + diffs <= 1
             /\ snapshots = 1 <=> (f.R /\ decodes)
             /\ diffs = 1 <=> (~f.R /\ f.uE /\ decodes)
             /\ (~f.R /\ ~f.uE) => (flast'.error = "none" /\ listener'.pc = "stream")
             /\ snapshots = 1
                => /\ snapshot_queue'[Len(snapshot_queue')].type = SNAPSHOT
                   /\ SubSeq(snapshot_queue', 1, Len(snapshot_queue)) = snapshot_queue
             /\ diffs = 1
                => /\ diff_queue'[Len(diff_queue')].type = DIFF
                   /\ SubSeq(diff_queue', 1, Len(diff_queue)) = diff_queue
             /\ snapshots = 0 => _snapshot_msg' = _snapshot_msg]_vars

\* C17 witness: a frame with both markers has gone to the snapshot channel and
\* a frame with the market-update marker only to the diff channel
C17_Witness ==
    /\ flast.action = "frame"
    /\ flast.frame.R /\ flast.frame.uE
    /\ Len(snapshot_queue) = 1
    /\ Len(diff_queue) = 1
    /\ frames = 2

\* the instrument ids in BASE-QUOTE form of the ids the exchange sends
NormalizedIds == {<<f.payload.M[2], f.payload.M[1]>> : f \in Frames}

\* the messages of a channel
Messages(channel) == {channel[i] : i \in 1..Len(channel)}

\* C18: every message on the snapshot channel, on the diff channel and in a
\* slot carries the instrument id in BASE-QUOTE form, and the message a frame
\* has just produced carries the frame's id with its two parts exchanged
C18_NormalizedInstrumentId ==
    /\ \A m \in Messages(snapshot_queue) \cup Messages(diff_queue) :
          m.trading_pair \in NormalizedIds
    /\ \A k \in DOMAIN _snapshot_msg :
          k \in NormalizedIds /\ _snapshot_msg[k].content.trading_pair = k
    /\ (flast.action = "frame" /\ flast.error = "none" /\ (flast.frame.R \/ flast.frame.uE))
       => LET channel == IF flast.frame.R THEN snapshot_queue ELSE diff_queue
              M == flast.frame.payload.M
          IN channel[Len(channel)].trading_pair = <<M[2], M[1]>>

\* C18 witness: messages have reached both channels and a slot
C18_Witness ==
    /\ snapshot_queue # << >>
    /\ diff_queue # << >>
    /\ DOMAIN _snapshot_msg # {}

(***************************************************************************)
(* Claims about wait_for_snapshot, checked under SpecWait.                 *)
(***************************************************************************)
\* a call of wait_for_snapshot has returned a snapshot stored for its
\* instrument with a timestamp not earlier than the one it was called with
ReturnedMatches(w) ==
    waiter[w].pc = "returned"
    => /\ waiter[w].result # Nothing
       /\ waiter[w].result[1].timestamp >= waiter[w].invoke_timestamp
       /\ waiter[w].result[1].content.trading_pair = waiter[w].trading_pair
       /\ waiter[w].result[1].content.type = SNAPSHOT

\* C19 as stated: a call returns only a snapshot of its instrument with a
\* timestamp >= T, and a call ends with the timeout error only if no such
\* snapshot was stored in the slot while the call was waiting
C19_ReturnsSnapshotStoredInTime ==
    \A w \in Waiters :
       /\ ReturnedMatches(w)
       /\ waiter[w].pc = "timeout" => ~waiter[w].offered

\* C19 as amended: a call returns only a snapshot of its instrument with a
\* timestamp >= T; each look at the slot, made at the call and then once
\* after every sleep, empties the slot and returns what it held if that has
\* a timestamp >= T and sleeps otherwise; the timeout error is raised in a
\* sleep, not before SNAPSHOT_TIMEOUT is over, and can be raised from then on
C19_ReturnsSnapshotFoundByPoll ==
    /\ [](\A w \in Waiters :
             /\ ReturnedMatches(w)
             /\ (waiter[w].pc = "sleep" /\ now >= waiter[w].deadline)
                => ENABLED WaitTimeout(w))
    /\ [][/\ flast'.action = "poll"
             => LET w == flast'.waiter
                    X == waiter'[w].trading_pair
                    T == waiter'[w].invoke_timestamp
                    held == X \in DOMAIN _snapshot_msg
                IN /\ X \notin DOMAIN _snapshot_msg'
                   /\ waiter[w].pc \in {"idle", "sleep"}
                   /\ IF held /\ _snapshot_msg[X].timestamp >= T
                      THEN /\ waiter'[w].pc = "returned"
                           /\ waiter'[w].result = <<_snapshot_msg[X]>>
                      ELSE /\ waiter'[w].pc = "sleep"
                           /\ waiter'[w].wake = now + PollSleep
          /\ flast'.action = "wait_timeout"
             => LET w == flast'.waiter
                IN /\ waiter[w].pc = "sleep"
                   /\ waiter'[w].pc = "timeout"
                   /\ now >= waiter[w].deadline
                   /\ flast'.error = "TimeoutError"]_vars

\* C19 witness: one call has returned a snapshot after sleeping and another
\* has timed out although a snapshot with a timestamp >= T was stored while
\* it waited
C19_Witness ==
    \E w1, w2 \in Waiters :
       /\ waiter[w1].pc = "returned"
       /\ waiter[w1].result[1].stored = 2
       /\ waiter[w2].pc = "timeout"
       /\ waiter[w2].offered

\* C20: no two calls of wait_for_snapshot return the same stored snapshot, and
\* the look that returns a snapshot leaves the slot of the instrument empty
C20_SnapshotReturnedOnce ==
    /\ [](\A w1, w2 \in Waiters :
             (w1 # w2 /\ waiter[w1].pc = "returned" /\ waiter[w2].pc = "returned")
             => waiter[w1].result[1].stored # waiter[w2].result[1].stored)
    /\ [][(flast'.action = "poll" /\ flast'.found)
          => /\ waiter'[flast'.waiter].trading_pair \notin DOMAIN _snapshot_msg'
             /\ waiter'[flast'.waiter].pc = "returned"
             /\ \A w \in Waiters \ {flast'.waiter} : waiter'[w] = waiter[w]]_vars

\* C20 witness: two concurrent calls for the same instrument have each
\* returned a snapshot
C20_Witness ==
    \A w \in Waiters :
       /\ waiter[w].pc = "returned"
       /\ waiter[w].trading_pair = <<"BTC", "USD">>

(***************************************************************************)
(* Claims about the order in which _track_single_book takes its messages.  *)
(***************************************************************************)
\* C28: whenever the replay buffer of a pair holds a message, the message the
\* pair's task processes next is the oldest buffered one and the inbound queue
\* is left as it is; the queue is read only with an empty buffer
C28_SavedMessagesFirst ==
    [][\A X \in Pairs :
          (last'.action = "track" /\ last'.pair = X)
          => IF Len(SavedMessages(X)) > 0
             THEN /\ last'.source = "saved"
                  /\ SavedMessages(X)' = Tail(SavedMessages(X))
                  /\ queue'[X] = queue[X]
                  /\ hist'[X].last_token = Head(SavedMessages(X)).timestamp
             ELSE /\ last'.source = "queue"
                  /\ queue'[X] = Tail(queue[X])
                  /\ hist'[X].last_token = Head(queue[X]).timestamp]_vars

\* C28 witness: a task has just processed a buffered message while a message
\* was waiting in its inbound queue
C28_Witness ==
    \E X \in Pairs :
       /\ last.action = "track"
       /\ last.pair = X
       /\ last.source = "saved"
       /\ Len(queue[X]) > 0

(***************************************************************************)
(* Claims about the catalog fetch and the teardown, checked under SpecFeed.*)
(***************************************************************************)
\* C24: a call of get_trading_pairs whose fetch of the markets fails raises
\* nothing and leaves and returns the empty list: the connect that made the
\* call subscribes to nothing and goes on, and the loop that called it
\* neither stops nor tears the session down
C24_CatalogFailureGivesEmptyList ==
    [][(Connected /\ flast'.catalog \in {"IOError", "TypeError"})
       => /\ flast'.error = "none"
          /\ _trading_pairs' = << >>
          /\ flast'.invoked = << >>
          /\ listener'.pc = IF flast'.action = "connect" THEN "stream" ELSE "wait"
          /\ _websocket_connection' # NoConnection]_vars

\* C24 witness: the loop waits for a frame after a connect whose fetch of the
\* markets failed with status 200
C24_Witness ==
    /\ flast.action = "stream"
    /\ flast.catalog = "TypeError"
    /\ listener.pc = "wait"
    /\ _trading_pairs = << >>

\* C27: whenever the frame stream of listen_for_order_book_stream ends, the
\* connection of the session is closed and _websocket_connection and
\* _websocket_hub are cleared before the next connect
C27_TeardownClosesSession ==
    [][(listener.pc \in {"stream", "wait"} /\ listener'.pc = "connect")
       => /\ flast'.closed = _websocket_connection
          /\ _websocket_connection' = NoConnection
          /\ _websocket_hub' = None]_vars

(***************************************************************************)
(* Claims about errors in _track_single_book, checked under SpecErr.       *)
(***************************************************************************)
\* the step just taken is an iteration of X's task in which applying the
\* message raised
FailedIteration(X) ==
    last'.action = "track" /\ last'.pair = X /\ last'.error # "none"

\* C21: an error raised while a message is applied is caught: the task sleeps
\* with the message taken and the book as it was, the sleep can always end,
\* its end puts the task back in its loop, and a task ends by cancellation only
C21_ErrorCaughtAndTaskResumes ==
    /\ [](\A X \in Pairs :
             (task[X].pc = "sleep" /\ ~task[X].cancel /\ running = "none")
             => ENABLED SleepOver(X))
    /\ [][\A X \in Pairs :
             /\ FailedIteration(X)
                => /\ task'[X].pc = "sleep"
                   /\ book'[X] = book[X]
                   /\ window'[X] = window[X]
                   /\ Len(SavedMessages(X)') + Len(queue'[X])
                        = Len(SavedMessages(X)) + Len(queue[X]) - 1
                   /\ X \in _tracking_tasks'
             /\ (last'.action = "resume" /\ last'.pair = X)
                => /\ task[X].pc = "sleep"
                   /\ task'[X].pc = "run"
                   /\ HasMessage(X) => running' = X
             /\ (~done(X) /\ done(X)') => last'.action = "cancelled"]_vars

\* C21 witness: a task has slept after an error and is back in its loop with
\* a message to process
C21_Witness ==
    \E X \in Pairs :
       /\ last.action = "resume"
       /\ last.pair = X
       /\ task[X].pc = "run"
       /\ running = X
       /\ Len(queue[X]) > 0

\* C22: an iteration of X's task that fails changes nothing of another pair Y
\* (book, inbound queue, replay buffer, past-diffs window, task), and X's
\* task does not hold the event loop while it sleeps
C22_ErrorIsolatedPerPair ==
    /\ [](\A X \in Pairs : task[X].pc = "sleep" => running # X)
    /\ [][\A X \in Pairs :
             FailedIteration(X)
             => /\ running' = "none"
                /\ \A Y \in Pairs \ {X} :
                      /\ book'[Y] = book[Y]
                      /\ queue'[Y] = queue[Y]
                      /\ SavedMessages(Y)' = SavedMessages(Y)
                      /\ window'[Y] = window[Y]
                      /\ task'[Y] = task[Y]
                      /\ hist'[Y] = hist[Y]]_vars

\* C22 witness: a task has processed a message while the task of the other
\* pair sleeps after an error
C22_Witness ==
    \E X, Y \in Pairs :
       /\ X # Y
       /\ task[X].pc = "sleep"
       /\ last.action = "track"
       /\ last.pair = Y
       /\ last.error = "none"

(***************************************************************************)
(* Claims about the tracked set.                                           *)
(***************************************************************************)
\* C29: no pass starts a task for a pair that still has an unfinished task,
\* so no unfinished task is left behind unrecorded, also when the passes of
\* two callers interleave (checked under SpecPasses)
C29_OneUnfinishedTaskPerPair ==
    [][last'.action = "refresh"
       => /\ \A X \in last'.new : ~Unfinished(task[X])
          /\ orphaned' = {}]_vars

\* C30: the dictionaries of tasks, of order books and of inbound queues have
\* the same keys in every state (checked under Spec)
C30_SameKeysInAllMaps ==
    /\ _tracking_tasks = _order_books
    /\ _tracking_tasks = _tracking_message_queues

\* C30 witness: a pass has just removed a pair and added or kept another
C30_Witness ==
    /\ last.action = "refresh"
    /\ last.deleted # {}
    /\ _tracking_tasks # {}
    /\ _order_books # Pairs

(***************************************************************************)
(* Claims about the loops of the data source, checked under SpecPoll.      *)
(***************************************************************************)
\* C25: a failed iteration of listen_for_order_book_stream leaves the loop
\* neither stopped nor back at its connect attempt, and a failed cycle of
\* listen_for_order_book_snapshots leaves that loop sleeping: each waits
\* before it tries again
C25_FailedIterationIsFollowedByDelay ==
    [][/\ (flast'.action \in {"connect", "stream", "frame"} /\ flast'.error # "none")
          => listener'.pc \notin {"stopped", "connect"}
       /\ (flast'.action = "cycle" /\ flast'.error # "none")
          => poller'.pc = "sleep"]_vars

\* the feed-order id, QUOTE-BASE, of the i-th trading pair
FeedOrderId(trading_pairs, i) ==
    <<trading_pairs[i].quote, trading_pairs[i].base>>

\* C26: a connect that succeeds has invoked one subscribe call and one snapshot
\* request for every trading pair, and a periodic cycle has invoked one
\* snapshot request for every trading pair, each with the QUOTE-BASE id of
\* the pair as its argument
C26_OneCallPerInstrument ==
    [][/\ (flast'.action = "connect" /\ flast'.error = "none" /\ created' # created)
          => flast'.invoked =
               [i \in 1..(2 * Len(_trading_pairs')) |->
                  IF i % 2 = 1
                  THEN <<"SubscribeToExchangeDeltas",
                         FeedOrderId(_trading_pairs', (i + 1) \div 2)>>
                  ELSE <<"queryExchangeState", FeedOrderId(_trading_pairs', i \div 2)>>]
       /\ flast'.action = "cycle"
          => flast'.invoked =
               [i \in 1..Len(_trading_pairs') |->
                  <<"queryExchangeState", FeedOrderId(_trading_pairs', i)>>]]_vars

C31_PollEmptiesSlotOfItsInstrument ==
    /\ [](\A w1, w2 \in Waiters :
             waiter[w2].pc = "returned"
             => waiter[w2].result[1].stored \notin waiter[w1].discarded)
    /\ [][flast'.action = "poll"
          => LET w == flast'.waiter
                 X == waiter'[w].trading_pair
                 T == waiter'[w].invoke_timestamp
             IN /\ X \notin DOMAIN _snapshot_msg'
                /\ DOMAIN _snapshot_msg' = DOMAIN _snapshot_msg \ {X}
                /\ \A Y \in DOMAIN _snapshot_msg' : _snapshot_msg'[Y] = _snapshot_msg[Y]
                /\ (X \in DOMAIN _snapshot_msg /\ _snapshot_msg[X].timestamp < T)
                   => /\ waiter'[w].pc = "sleep"
                      /\ waiter'[w].result = Nothing
                      /\ _snapshot_msg[X].stored \in waiter'[w].discarded]_vars

\* C31 witness: a poll has taken a snapshot that was too old from the slot of
\* its instrument and sleeps, while the slot of another instrument holds a
\* snapshot
C31_Witness ==
    /\ flast.action = "poll"
    /\ ~flast.found
    /\ waiter[flast.waiter].pc = "sleep"
    /\ waiter[flast.waiter].discarded # {}
    /\ waiter[flast.waiter].trading_pair \notin DOMAIN _snapshot_msg
    /\ DOMAIN _snapshot_msg # {}

====
